---- MODULE Spec2Model ----
(***************************************************************************)
(* Model of idaes/generic_models/properties/core/generic/utility.py:       *)
(* get_method, get_component_object, get_bounds_from_config and            *)
(* set_param_value.  The configuration objects, the block's parameter      *)
(* objects and the arguments of a call are the state; every function is    *)
(* one action that records the call and its outcome (a returned value or   *)
(* the exception that propagates to the caller).                           *)
(***************************************************************************)
EXTENDS Integers, Sequences, FiniteSets, TLC

VARIABLES
    config,          \* self.params.config: configuration key -> configured value
    comp_config,     \* component name -> self.params.get_component(name).config
    state_bounds,    \* b.params.config.state_bounds
    block,           \* attribute name -> stored .value of the parameter object on block b
    parameter_data,  \* b.config.parameter_data
    cfg_data,        \* parameter_data of the config block a caller may pass as config=
    call,            \* the last call: function name and arguments
    ret,             \* its outcome: returned value or raised exception
    repeated         \* history: the last call had the arguments of the call before it

vars == <<config, comp_config, state_bounds, block, parameter_data, cfg_data, call, ret,
          repeated>>

-----------------------------------------------------------------------------
(* Python values *)

\* Python None in an argument position that otherwise holds a string
None == "None"
\* Python None as a configured value
PyNone == [type |-> "NoneType"]
\* an attribute or key that does not exist (getattr raises AttributeError,
\* a dict lookup raises KeyError)
Absent == [type |-> "absent"]

Return(v) == [status |-> "return", value |-> v, exc |-> Absent]
Raise(e) == [status |-> "raise", value |-> Absent, exc |-> e]
NoCall == [op |-> "none"]
NoRet == [status |-> "none", value |-> Absent, exc |-> Absent]

-----------------------------------------------------------------------------
(* get_method *)

\* self.name of the property package instance
SelfName == "props"
\* configuration arguments looked up by the callers of get_method
Keys == {"pressure_sat_comp", "enth_mol_ig_comp"}
\* components registered on the parameter block, and a name that is not
Comps == {"H2O"}
CompArgs == {None, "H2O", "N2"}

\* an object that is neither None nor a module: it is callable or not, and
\* has an attribute return_expression or not
Object(id, c, re) == [type |-> "object", id |-> id, callable |-> c, return_expression |-> re]
\* what return_expression can hold: a bound method, or something not callable
Methods == {Object("return_expression", c, Absent) : c \in BOOLEAN}
Objects == {Object("obj", c, re) : c \in BOOLEAN, re \in Methods \cup {Absent}}
\* a module whose namespace has no attribute named like a configuration argument
Submodule == [type |-> "module", id |-> "submodule", attrs |-> [k \in Keys |-> Absent]]
Modules == {[type |-> "module", id |-> "module", attrs |-> a] :
                a \in [Keys -> Objects \cup {Submodule, Absent}]}
ConfigValues == {Absent, PyNone} \cup Objects \cup Modules
\* the configured values of a component's config block
CompConfigValues == {Absent, PyNone, Object("comp_obj", TRUE, Absent)}

\* getattr(o, name), Absent when it raises AttributeError
getattr(o, name) ==
    IF o.type = "module"
    THEN IF name \in DOMAIN o.attrs THEN o.attrs[name] ELSE Absent
    ELSE IF o.type = "object" /\ name = "return_expression"
         THEN o.return_expression
         ELSE Absent

\* isinstance(o, types.ModuleType)
isModule(o) == o.type = "module"

\* callable(o)
callable(o) == o.type = "object" /\ o.callable

\* the exceptions get_method raises
InvalidKeyError(self, config_arg) ==
    [exc |-> "AttributeError", text |-> "called for invalid configuration option",
     owner |-> self.name, key |-> config_arg]
GenericPropertyPackageError(self, prop) ==
    [exc |-> "GenericPropertyPackageError", text |-> "was not provided with a method",
     owner |-> self.name, key |-> prop]
ConfigurationError(self, config_arg) ==
    [exc |-> "ConfigurationError", text |-> "received invalid value for argument",
     owner |-> self.name, key |-> config_arg]
\* getattr(module, config_arg) failing: Python's own AttributeError
ModuleAttributeError(config_arg) ==
    [exc |-> "AttributeError", text |-> "module has no attribute",
     owner |-> "module", key |-> config_arg]
\* self.params.get_component(comp) failing: the registry's error
ComponentLookupError(comp) ==
    [exc |-> "ComponentLookupError", text |-> "no such component",
     owner |-> "params", key |-> comp]

\* the property package instance as get_method sees it
Self == [name |-> SelfName, config |-> config, components |-> comp_config]

\* self.params.get_component(comp)
get_component(self, comp) ==
    IF comp \in DOMAIN self.components
    THEN Return(self.components[comp])
    ELSE Raise(ComponentLookupError(comp))

\* source_block that always reads the package-level config
source_block_ignores_comp(self, comp) == Return(self.config)

\* lines 60-63: the config block the argument is looked up on
source_block(self, comp) ==
    IF comp = None
    THEN Return(self.config)
    ELSE get_component(self, comp)

\* lookup_config_arg written as getattr(source_block, config_arg, None)
lookup_config_arg_default_none(self, source, config_arg) ==
    LET c_arg == IF config_arg \in DOMAIN source THEN source[config_arg] ELSE Absent
    IN  IF c_arg = Absent \/ c_arg = PyNone
        THEN Raise(GenericPropertyPackageError(self, config_arg))
        ELSE Return(c_arg)

\* lines 65-74: the configured value, or the error for a missing or unset one
lookup_config_arg(self, source, config_arg) ==
    LET c_arg == IF config_arg \in DOMAIN source THEN source[config_arg] ELSE Absent
    IN  IF c_arg = Absent
        THEN Raise(InvalidKeyError(self, config_arg))
        ELSE IF c_arg = PyNone
             THEN Raise(GenericPropertyPackageError(self, config_arg))
             ELSE Return(c_arg)

\* resolve_module that reads another attribute of the module
resolve_module_wrong_attribute(c_arg, config_arg) ==
    LET other == CHOOSE k \in Keys : k # config_arg
    IN  IF isModule(c_arg)
        THEN IF getattr(c_arg, other) = Absent
             THEN Raise(ModuleAttributeError(other))
             ELSE Return(getattr(c_arg, other))
        ELSE Return(c_arg)

\* lines 76-77: a module is replaced by its attribute named config_arg
resolve_module(c_arg, config_arg) ==
    IF isModule(c_arg)
    THEN IF getattr(c_arg, config_arg) = Absent
         THEN Raise(ModuleAttributeError(config_arg))
         ELSE Return(getattr(c_arg, config_arg))
    ELSE Return(c_arg)

\* resolve_return_expression that keeps the wrapping object
resolve_return_expression_skipped(c_arg) == c_arg

\* lines 79-82: the return_expression attribute if there is one
resolve_return_expression(c_arg) ==
    IF getattr(c_arg, "return_expression") # Absent
    THEN getattr(c_arg, "return_expression")
    ELSE c_arg

\* check_callable without the callable() test
check_callable_unchecked(self, mthd, config_arg) == Return(mthd)

\* lines 84-91: only a callable is returned
check_callable(self, mthd, config_arg) ==
    IF callable(mthd)
    THEN Return(mthd)
    ELSE Raise(ConfigurationError(self, config_arg))

get_method(self, config_arg, comp) ==
    LET src == source_block(self, comp)
    IN  IF src.status = "raise" THEN src
        ELSE LET c0 == lookup_config_arg(self, src.value, config_arg)
             IN  IF c0.status = "raise" THEN c0
                 ELSE LET c1 == resolve_module(c0.value, config_arg)
                      IN  IF c1.status = "raise" THEN c1
                          ELSE check_callable(self,
                                   resolve_return_expression(c1.value), config_arg)

\* get_component_object(self, comp), lines 94-107
get_component_object(self, comp) == get_component(self, comp)

GetMethod(config_arg, comp) ==
    /\ call' = [op |-> "get_method", config_arg |-> config_arg, comp |-> comp]
    /\ ret' = get_method(Self, config_arg, comp)
    /\ repeated' = FALSE
    /\ UNCHANGED <<config, comp_config, state_bounds, block, parameter_data, cfg_data>>

GetComponentObject(comp) ==
    /\ call' = [op |-> "get_component_object", comp |-> comp]
    /\ ret' = get_component_object(Self, comp)
    /\ repeated' = FALSE
    /\ UNCHANGED <<config, comp_config, state_bounds, block, parameter_data, cfg_data>>

InitMethod ==
    /\ config \in [Keys -> ConfigValues]
    /\ comp_config \in [Comps -> [Keys -> CompConfigValues]]
    /\ state_bounds = PyNone
    /\ block = <<>>
    /\ parameter_data = <<>>
    /\ cfg_data = <<>>
    /\ call = NoCall
    /\ ret = NoRet
    /\ repeated = FALSE

NextMethod ==
    \/ \E k \in Keys, c \in CompArgs : GetMethod(k, c)
    \/ \E c \in CompArgs \ {None} : GetComponentObject(c)

SpecMethod == InitMethod /\ [][NextMethod]_vars

-----------------------------------------------------------------------------
(* Properties of get_method *)

\* the last call is a get_method call whose config block was found
IsGetMethod == call.op = "get_method" /\ call.comp \in {None} \cup Comps
\* the config block that call reads, and the value configured under its key
CallSource == IF call.comp = None THEN config ELSE comp_config[call.comp]
Configured == CallSource[call.config_arg]
\* the configured value after a module has been replaced by its attribute
Wrapper == IF isModule(Configured) THEN Configured.attrs[call.config_arg] ELSE Configured
HasReturnExpression(o) == o.type = "object" /\ o.return_expression # Absent
\* the final candidate after module and return_expression resolution
Candidate == IF HasReturnExpression(Wrapper) THEN Wrapper.return_expression ELSE Wrapper
ReachesCandidate == Configured \notin {Absent, PyNone} /\ Wrapper # Absent

\* C1: a key absent from the resolved config fails with the invalid-key
\* AttributeError naming owner and key, a key configured as None fails with
\* GenericPropertyPackageError carrying owner and key; each error occurs in
\* its own case only, and neither case returns a value.
C1_AbsentAndUnsetErrors ==
    IsGetMethod =>
        /\ Configured = Absent <=>
               ret = Raise([exc |-> "AttributeError",
                            text |-> "called for invalid configuration option",
                            owner |-> SelfName, key |-> call.config_arg])
        /\ Configured = PyNone <=>
               ret = Raise([exc |-> "GenericPropertyPackageError",
                            text |-> "was not provided with a method",
                            owner |-> SelfName, key |-> call.config_arg])
        /\ Configured \in {Absent, PyNone} => ret.status = "raise"

C1_Witness ==
    /\ IsGetMethod /\ call.comp = "H2O" /\ Configured = Absent
    /\ ret.status = "raise" /\ ret.exc.exc = "AttributeError"
    /\ config[call.config_arg] = PyNone

\* C2 as stated: every configured callable, also one that carries a
\* return_expression attribute, is returned unchanged.
C2_AnyCallableReturnedUnchanged ==
    IsGetMethod /\ callable(Configured) => ret = Return(Configured)

\* C2 amended: a configured callable without a return_expression attribute is
\* returned unchanged; a callable that carries return_expression is not
\* returned itself, its return_expression is (when callable), else the call
\* fails with ConfigurationError.
C2_PlainCallableReturnedUnchanged ==
    IsGetMethod /\ callable(Configured) =>
        IF Configured.return_expression = Absent
        THEN ret = Return(Configured)
        ELSE /\ ret # Return(Configured)
             /\ IF Configured.return_expression.callable
                THEN ret = Return(Configured.return_expression)
                ELSE ret.status = "raise" /\ ret.exc.exc = "ConfigurationError"

C2_Witness ==
    /\ IsGetMethod /\ callable(Configured)
    /\ Configured.return_expression = Absent
    /\ ret = Return(Configured)

\* C3 as stated: an object with a return_expression attribute, configured
\* directly or reached through a module, always makes get_method return
\* that attribute.
C3_ReturnExpressionAlwaysReturned ==
    IsGetMethod /\ ReachesCandidate /\ HasReturnExpression(Wrapper) =>
        ret = Return(Wrapper.return_expression)

\* C3 amended: when the object's return_expression attribute is callable
\* get_method returns that attribute; when it is not callable the call fails
\* with ConfigurationError; the wrapping object is returned in neither case.
C3_CallableReturnExpressionReturned ==
    IsGetMethod /\ ReachesCandidate /\ HasReturnExpression(Wrapper) =>
        /\ ret # Return(Wrapper)
        /\ IF Wrapper.return_expression.callable
           THEN ret = Return(Wrapper.return_expression)
           ELSE ret.status = "raise" /\ ret.exc.exc = "ConfigurationError"

C3_Witness ==
    /\ IsGetMethod /\ isModule(Configured) /\ ReachesCandidate
    /\ HasReturnExpression(Wrapper) /\ Wrapper.callable
    /\ ret = Return(Wrapper.return_expression)

\* C4 as stated: a configured module that defines attribute K always makes
\* get_method return that attribute.
C4_ModuleAttributeAlwaysReturned ==
    IsGetMethod /\ isModule(Configured) /\ Configured.attrs[call.config_arg] # Absent =>
        ret = Return(Configured.attrs[call.config_arg])

\* C4 amended: for a configured module that defines attribute K, get_method
\* never returns the module; it returns the attribute when that is callable
\* and has no return_expression, the attribute's return_expression when that
\* is callable, and fails with ConfigurationError otherwise.
C4_ModuleAttributeResolved ==
    IsGetMethod /\ isModule(Configured) /\ Configured.attrs[call.config_arg] # Absent =>
        LET attr == Configured.attrs[call.config_arg]
        IN  /\ ret # Return(Configured)
            /\ IF HasReturnExpression(attr)
               THEN IF attr.return_expression.callable
                    THEN ret = Return(attr.return_expression)
                    ELSE ret.status = "raise" /\ ret.exc.exc = "ConfigurationError"
               ELSE IF callable(attr)
                    THEN ret = Return(attr)
                    ELSE ret.status = "raise" /\ ret.exc.exc = "ConfigurationError"

C4_Witness ==
    /\ IsGetMethod /\ isModule(Configured)
    /\ callable(Configured.attrs[call.config_arg])
    /\ ~HasReturnExpression(Configured.attrs[call.config_arg])
    /\ \E k \in Keys : Configured.attrs[k] # Configured.attrs[call.config_arg]
    /\ ret = Return(Configured.attrs[call.config_arg])

\* C5: get_method never returns a non-callable: once module and
\* return_expression resolution yield a final candidate, a callable candidate
\* is returned and any other fails with ConfigurationError naming owner and
\* key, as for a non-callable return_expression or module attribute.
C5_OnlyCallablesReturned ==
    call.op = "get_method" =>
        /\ ret.status = "return" => ret.value.type = "object" /\ ret.value.callable
        /\ IsGetMethod /\ ReachesCandidate =>
               IF callable(Candidate)
               THEN ret = Return(Candidate)
               ELSE ret = Raise([exc |-> "ConfigurationError",
                                 text |-> "received invalid value for argument",
                                 owner |-> SelfName, key |-> call.config_arg])

C5_Witness ==
    /\ IsGetMethod /\ ReachesCandidate
    /\ HasReturnExpression(Wrapper) /\ ~Wrapper.return_expression.callable
    /\ Wrapper.callable
    /\ ret.status = "raise" /\ ret.exc.exc = "ConfigurationError"

-----------------------------------------------------------------------------
(* Numbers and units *)

\* the largest number that appears in a configuration
MaxVal == 2

RECURSIVE gcd(_, _)
gcd(a, b) == IF b = 0 THEN a ELSE gcd(b, a % b)

\* a number, kept as the fraction n/d in lowest terms
Num(n, d) == [type |-> "float", n |-> n \div gcd(n, d), d |-> d \div gcd(n, d)]
Numbers == {Num(n, 1) : n \in 1..MaxVal}
isNumber(v) == v.type = "float"

\* a Python tuple
Tuple(items) == [type |-> "tuple", items |-> items]
isTuple(v) == v.type = "tuple"

\* units of measurement; None stands for "no units" (dimensionless)
Units == {None, "Pa", "kPa"}
dimension(u) == IF u = None THEN "dimensionless" ELSE "pressure"
\* size of one unit in Pa
factor(u) == IF u = "kPa" THEN 1000 ELSE 1

UnitsError(from_units, to_units) ==
    [exc |-> "UnitsError", text |-> "cannot convert", owner |-> from_units, key |-> to_units]

\* pyunits.convert_value(num_value, from_units=, to_units=): the value in
\* to_units; raises for a value that is not a number and for units of
\* different dimensions
convert_value(num_value, from_units, to_units) ==
    IF ~isNumber(num_value) \/ dimension(from_units) # dimension(to_units)
    THEN Raise(UnitsError(from_units, to_units))
    ELSE Return(Num(num_value.n * factor(from_units), num_value.d * factor(to_units)))

-----------------------------------------------------------------------------
(* get_bounds_from_config *)

States == {"pressure", "flow_mol"}

\* a bound or default: a number, or None for "no bound"
BoundValues == Numbers \cup {PyNone}
\* (lower, default, upper) and (lower, default, upper, units)
BoundSpecs ==
    {Tuple(<<lo, df, hi>>) : lo \in BoundValues, df \in BoundValues, hi \in BoundValues}
    \cup {Tuple(<<lo, df, hi, u>>) :
              lo \in BoundValues, df \in BoundValues, hi \in BoundValues, u \in Units}
\* a dict: items[k] is Absent for a key the dict does not hold
Dict(items) == [type |-> "dict", items |-> items]
\* state_bounds: a dict of specifications (or None in place of one), None, or
\* no such config attribute
StateBounds ==
    {Dict(d) : d \in [States -> BoundSpecs \cup {Absent, PyNone}]} \cup {PyNone, Absent}

TypeError(what) ==
    [exc |-> "TypeError", text |-> what, owner |-> "-", key |-> "-"]
StateBoundsAttributeError ==
    [exc |-> "AttributeError", text |-> "no attribute", owner |-> "config", key |-> "state_bounds"]

\* get_bounds_from_config with default and upper bound taken from each other's place
get_bounds_from_config_swapped(b, state, base_units) ==
    IF b.state_bounds = Absent THEN Raise(StateBoundsAttributeError)
    ELSE IF b.state_bounds = PyNone \/ b.state_bounds.items[state] = Absent
    THEN Return(Tuple(<<Tuple(<<PyNone, PyNone>>), PyNone>>))
    ELSE IF b.state_bounds.items[state] = PyNone
    THEN Raise(TypeError("object of type NoneType has no len()"))
    ELSE LET var_config == b.state_bounds.items[state].items
         IN  IF Len(var_config) = 4
             THEN LET lo == convert_value(var_config[1], var_config[4], base_units)
                      hi == convert_value(var_config[2], var_config[4], base_units)
                      df == convert_value(var_config[3], var_config[4], base_units)
                  IN  IF lo.status = "raise" THEN lo
                      ELSE IF hi.status = "raise" THEN hi
                      ELSE IF df.status = "raise" THEN df
                      ELSE Return(Tuple(<<Tuple(<<lo.value, hi.value>>), df.value>>))
             ELSE Return(Tuple(<<Tuple(<<var_config[1], var_config[3]>>), var_config[2]>>))

\* lines 110-147; var_config[i] of the code is var_config[i+1] here
get_bounds_from_config(b, state, base_units) ==
    IF b.state_bounds = Absent
    THEN \* AttributeError is not caught by except (KeyError, TypeError)
         Raise(StateBoundsAttributeError)
    ELSE IF b.state_bounds = PyNone \/ b.state_bounds.items[state] = Absent
    THEN \* TypeError (None is not subscriptable) or KeyError: state definition missing
         Return(Tuple(<<Tuple(<<PyNone, PyNone>>), PyNone>>))
    ELSE IF b.state_bounds.items[state] = PyNone
    THEN Raise(TypeError("object of type NoneType has no len()"))
    ELSE LET var_config == b.state_bounds.items[state].items
         IN  IF Len(var_config) = 4
             THEN LET lo == convert_value(var_config[1], var_config[4], base_units)
                      hi == convert_value(var_config[3], var_config[4], base_units)
                      df == convert_value(var_config[2], var_config[4], base_units)
                  IN  IF lo.status = "raise" THEN lo
                      ELSE IF hi.status = "raise" THEN hi
                      ELSE IF df.status = "raise" THEN df
                      ELSE Return(Tuple(<<Tuple(<<lo.value, hi.value>>), df.value>>))
             ELSE Return(Tuple(<<Tuple(<<var_config[1], var_config[3]>>), var_config[2]>>))

GetBoundsFromConfig(state, base_units) ==
    /\ call' = [op |-> "get_bounds_from_config", state |-> state, base_units |-> base_units]
    /\ ret' = get_bounds_from_config([state_bounds |-> state_bounds], state, base_units)
    /\ repeated' = FALSE
    /\ UNCHANGED <<config, comp_config, state_bounds, block, parameter_data, cfg_data>>

InitBounds ==
    /\ state_bounds \in StateBounds
    /\ config = [k \in Keys |-> PyNone]
    /\ comp_config = [c \in Comps |-> [k \in Keys |-> PyNone]]
    /\ block = <<>>
    /\ parameter_data = <<>>
    /\ cfg_data = <<>>
    /\ call = NoCall
    /\ ret = NoRet
    /\ repeated = FALSE

NextBounds == \E s \in States, u \in Units : GetBoundsFromConfig(s, u)

SpecBounds == InitBounds /\ [][NextBounds]_vars

-----------------------------------------------------------------------------
(* Properties of get_bounds_from_config *)

IsGetBounds == call.op = "get_bounds_from_config" /\ state_bounds # Absent
NoSpecification == state_bounds = PyNone \/ state_bounds.items[call.state] = Absent
IsSpecification == ~NoSpecification /\ isTuple(state_bounds.items[call.state])
Specification == state_bounds.items[call.state].items
\* the conversion from the specification's unit to the base unit
conv(v) == convert_value(v, Specification[4], call.base_units)

\* C6: with no specification for the state (state_bounds not indexable, or
\* without the key) the result is ((None, None), None) and nothing is
\* raised; a 4-element (lo, def, hi, unit) gives ((conv(lo), conv(hi)),
\* conv(def)) with conv the conversion from unit to the base unit, whose
\* failure is the call's failure; a 3-element (lo, def, hi) gives
\* ((lo, hi), def) with nothing converted.
C6_BoundsByShape ==
    IsGetBounds =>
        IF NoSpecification
        THEN ret = Return(Tuple(<<Tuple(<<PyNone, PyNone>>), PyNone>>))
        ELSE IF ~IsSpecification
        THEN ret.status = "raise"
        ELSE IF Len(Specification) = 4
        THEN IF \E i \in 1..3 : conv(Specification[i]).status = "raise"
             THEN ret.status = "raise" /\ ret.exc.exc = "UnitsError"
             ELSE ret = Return(Tuple(<<Tuple(<<conv(Specification[1]).value,
                                               conv(Specification[3]).value>>),
                                       conv(Specification[2]).value>>))
        ELSE ret = Return(Tuple(<<Tuple(<<Specification[1], Specification[3]>>),
                                  Specification[2]>>))

C6_Witness ==
    /\ IsGetBounds /\ IsSpecification /\ Len(Specification) = 4
    /\ Specification[4] = "kPa" /\ call.base_units = "Pa"
    /\ Specification[1] = Num(1, 1) /\ Specification[2] = Num(2, 1)
    /\ ret = Return(Tuple(<<Tuple(<<Num(1000, 1), conv(Specification[3]).value>>),
                            Num(2000, 1)>>))
    /\ \E s \in States : state_bounds.items[s] = Absent

-----------------------------------------------------------------------------
(* set_param_value *)

BlockName == "params"
\* parameter names passed as param, and sub-keys passed as index
Names == {"kappa", "mu"}
Indices == {"1"}
\* the parameter objects constructed on the block; "mu_1" is not among them
ParamAttrs == {"kappa", "kappa_1", "mu"}
\* what the caller passes as config=: nothing, or another config block
ConfigArgs == {None, "config"}

\* raw data of one parameter: a bare value or a (value, units) pair
ParamData == Numbers \cup {Tuple(<<v, u>>) : v \in Numbers, u \in Units}
\* parameter_data[name]: raw data, a dict of raw data by index, or no entry
ParamEntries ==
    ParamData \cup {Dict(d) : d \in [Indices -> ParamData \cup {Absent}]} \cup {Absent}
\* mu is configured, if at all, as a bare value
BareEntries == Numbers \cup {Absent}
\* parameter_data of the config block passed as config=
CfgEntries == {Absent, Tuple(<<Num(MaxVal, 1), "kPa">>), Dict([i \in Indices |-> Num(1, 1)])}

BlockAttributeError(name) ==
    [exc |-> "AttributeError", text |-> "no attribute", owner |-> BlockName, key |-> name]
KeyError(key) ==
    [exc |-> "KeyError", text |-> "no such key", owner |-> "parameter_data", key |-> key]

\* the block as set_param_value sees it
ConfigBlock(pd) == [type |-> "config", parameter_data |-> pd]
B == [name |-> BlockName, attrs |-> block, config |-> ConfigBlock(parameter_data)]
\* the config block behind a value of the config= argument
ConfigOf(c) == IF c = None THEN PyNone ELSE ConfigBlock(cfg_data)

\* lines 168-169: the config block that is read
select_config(b, cfg) == IF cfg = PyNone THEN b.config ELSE cfg

\* target_name that leaves the index out
target_name_without_index(param, index) == param

\* lines 172 and 175: the attribute name of the parameter object
target_name(param, index) ==
    IF index = None THEN param ELSE param \o "_" \o index

\* d[key] of a value d: KeyError, or TypeError when d takes no string key
subscript(d, key) ==
    IF d = Absent THEN Raise(KeyError(key))
    ELSE IF d.type = "dict"
    THEN IF key \in DOMAIN d.items /\ d.items[key] # Absent
         THEN Return(d.items[key])
         ELSE Raise(KeyError(key))
    ELSE Raise(TypeError("not subscriptable by str"))

\* lines 173 and 176: the raw data of the parameter
lookup_p_data(pd, param, index) ==
    IF param \notin DOMAIN pd \/ pd[param] = Absent
    THEN Raise(KeyError(param))
    ELSE IF index = None
         THEN Return(pd[param])
         ELSE subscript(pd[param], index)

\* new_value that converts from the target unit to the supplied one
new_value_reversed(p_data, units) ==
    IF isTuple(p_data)
    THEN IF units = None /\ p_data.items[2] = None
         THEN Return(p_data.items[1])
         ELSE convert_value(p_data.items[1], units, p_data.items[2])
    ELSE Return(p_data)

\* lines 178-187: the value to store; p_data[i] of the code is items[i+1]
new_value(p_data, units) ==
    IF isTuple(p_data)
    THEN IF units = None /\ p_data.items[2] = None
         THEN Return(p_data.items[1])
         ELSE convert_value(p_data.items[1], p_data.items[2], units)
    ELSE Return(p_data)

\* the outcome of a call and the block's parameter values after it
Outcome(out, attrs) == [out |-> out, attrs |-> attrs]

\* set_param_value that converts the value the parameter holds
set_param_value_compounding(b, param, units, cfg, index) ==
    LET name == target_name(param, index)
        p_data == lookup_p_data(select_config(b, cfg).parameter_data, param, index)
    IN  IF name \notin DOMAIN b.attrs
        THEN Outcome(Raise(BlockAttributeError(name)), b.attrs)
        ELSE IF p_data.status = "raise"
        THEN Outcome(p_data, b.attrs)
        ELSE LET held == IF isTuple(p_data.value) /\ isNumber(b.attrs[name])
                         THEN Tuple(<<b.attrs[name], p_data.value.items[2]>>)
                         ELSE p_data.value
                 v == new_value(held, units)
             IN  IF v.status = "raise"
                 THEN Outcome(v, b.attrs)
                 ELSE Outcome(Return(PyNone), [b.attrs EXCEPT ![name] = v.value])

\* set_param_value that stores the raw value before it converts
set_param_value_assign_first(b, param, units, cfg, index) ==
    LET name == target_name(param, index)
        p_data == lookup_p_data(select_config(b, cfg).parameter_data, param, index)
    IN  IF name \notin DOMAIN b.attrs
        THEN Outcome(Raise(BlockAttributeError(name)), b.attrs)
        ELSE IF p_data.status = "raise"
        THEN Outcome(p_data, b.attrs)
        ELSE LET v == new_value(p_data.value, units)
                 raw == IF isTuple(p_data.value) THEN p_data.value.items[1] ELSE p_data.value
             IN  IF v.status = "raise"
                 THEN Outcome(v, [b.attrs EXCEPT ![name] = raw])
                 ELSE Outcome(Return(PyNone), [b.attrs EXCEPT ![name] = v.value])

\* lines 150-187: getattr(b, ...) comes first, then the parameter_data
\* lookup, then the conversion, and the assignment to .value last
set_param_value(b, param, units, cfg, index) ==
    LET name == target_name(param, index)
        p_data == lookup_p_data(select_config(b, cfg).parameter_data, param, index)
    IN  IF name \notin DOMAIN b.attrs
        THEN Outcome(Raise(BlockAttributeError(name)), b.attrs)
        ELSE IF p_data.status = "raise"
        THEN Outcome(p_data, b.attrs)
        ELSE LET v == new_value(p_data.value, units)
             IN  IF v.status = "raise"
                 THEN Outcome(v, b.attrs)
                 ELSE Outcome(Return(PyNone), [b.attrs EXCEPT ![name] = v.value])

SetParamValue(param, units, cfg, index) ==
    LET this == [op |-> "set_param_value", param |-> param, units |-> units,
                 config |-> cfg, index |-> index]
        done == set_param_value(B, param, units, ConfigOf(cfg), index)
    IN  /\ call' = this
        /\ repeated' = (call = this)
        /\ ret' = done.out
        /\ block' = done.attrs
        /\ UNCHANGED <<config, comp_config, state_bounds, parameter_data, cfg_data>>

InitParam ==
    /\ block = [a \in ParamAttrs |-> Num(0, 1)]
    /\ parameter_data \in [Names -> ParamEntries]
    /\ parameter_data["mu"] \in BareEntries
    /\ cfg_data \in [Names -> CfgEntries]
    /\ cfg_data["mu"] = Absent
    /\ config = [k \in Keys |-> PyNone]
    /\ comp_config = [c \in Comps |-> [k \in Keys |-> PyNone]]
    /\ state_bounds = PyNone
    /\ call = NoCall
    /\ ret = NoRet
    /\ repeated = FALSE

NextParam ==
    \E param \in Names, units \in Units, cfg \in ConfigArgs, index \in Indices \cup {None} :
        SetParamValue(param, units, cfg, index)

SpecParam == InitParam /\ [][NextParam]_vars

-----------------------------------------------------------------------------
(* Properties of set_param_value *)

IsSetParam(c) == c.op = "set_param_value"
\* the attribute the call c addresses: N, or N + "_" + I
TargetOf(c) == IF c.index = None THEN c.param ELSE c.param \o "_" \o c.index
\* the parameter_data the call c reads: the supplied config's, else the block's
DataOf(c) == IF c.config = None THEN parameter_data ELSE cfg_data
\* parameter_data[N] or parameter_data[N][I], Absent when there is no such entry
RawDataOf(c) ==
    LET entry == DataOf(c)[c.param]
    IN  IF c.index = None THEN entry
        ELSE IF entry # Absent /\ entry.type = "dict" THEN entry.items[c.index]
        ELSE Absent
\* the entry under N cannot be sub-keyed by an index
NotSubscriptable(c) ==
    /\ c.index # None
    /\ DataOf(c)[c.param] # Absent
    /\ DataOf(c)[c.param].type # "dict"

\* C7: after a successful call the target parameter holds the raw value when
\* the raw data is a bare (non-tuple) value, whatever the target unit; the
\* raw value when the raw data is a (value, unit) pair and target unit and
\* supplied unit are both None; and otherwise the pair's value converted
\* from the supplied unit to the target unit.
C7_StoredValueByShape ==
    IsSetParam(call) /\ ret.status = "return" =>
        LET p_data == RawDataOf(call)
            stored == block[TargetOf(call)]
        IN  IF ~isTuple(p_data)
            THEN stored = p_data
            ELSE IF call.units = None /\ p_data.items[2] = None
            THEN stored = p_data.items[1]
            ELSE stored = convert_value(p_data.items[1], p_data.items[2], call.units).value

C7_Witness ==
    /\ IsSetParam(call) /\ ret.status = "return"
    /\ RawDataOf(call) = Tuple(<<Num(2, 1), "Pa">>)
    /\ call.units = "kPa"
    /\ block[TargetOf(call)] = Num(1, 500)

\* C8: a call with name N and index I stores into the parameter object
\* N + "_" + I what it read from parameter_data[N][I], a call without index
\* stores into N what it read from parameter_data[N]; every other parameter
\* object of the block, the block's parameter_data and the supplied
\* config's parameter_data are left as they were.
C8_OnlyTargetChanges ==
    [][IsSetParam(call') =>
          LET name == IF call'.index = None
                      THEN call'.param
                      ELSE call'.param \o "_" \o call'.index
              p_data == IF call'.index = None
                        THEN (IF call'.config = None THEN parameter_data
                              ELSE cfg_data)[call'.param]
                        ELSE (IF call'.config = None THEN parameter_data
                              ELSE cfg_data)[call'.param].items[call'.index]
          IN  /\ DOMAIN block' = DOMAIN block
              /\ \A a \in DOMAIN block : a # name => block'[a] = block[a]
              /\ parameter_data' = parameter_data
              /\ cfg_data' = cfg_data
              /\ ret'.status = "return" =>
                     block'[name] = IF isTuple(p_data)
                                    THEN IF call'.units = None /\ p_data.items[2] = None
                                         THEN p_data.items[1]
                                         ELSE convert_value(p_data.items[1], p_data.items[2],
                                                            call'.units).value
                                    ELSE p_data]_vars

C8_Witness ==
    /\ IsSetParam(call) /\ ret.status = "return"
    /\ call.param = "kappa" /\ call.index = "1" /\ call.config = None
    /\ block["kappa_1"] = parameter_data["kappa"].items["1"]
    /\ block["kappa"] = Num(0, 1)
    /\ block["mu"] = Num(1, 1)

\* C9: a call that repeats the call before it (same block, name, target
\* unit, config and index) leaves every stored parameter value as the first
\* of the two left it: it converts the configured raw data again, not the
\* stored value.
C9_Idempotent ==
    [][IsSetParam(call') /\ repeated' => block' = block]_vars

C9_Witness ==
    /\ IsSetParam(call) /\ repeated /\ ret.status = "return"
    /\ RawDataOf(call) = Tuple(<<Num(1, 1), "kPa">>)
    /\ call.units = "Pa"
    /\ block[TargetOf(call)] = Num(1000, 1)

\* C10: a call fails when the target parameter object does not exist on the
\* block, when parameter_data has no entry for the name (or for the index
\* under the name), and when the unit conversion raises; whenever a call
\* fails the error reaches the caller and every stored parameter value,
\* the target's too, is what it was before the call.
C10_FailureChangesNothing ==
    [][IsSetParam(call') =>
          /\ ret'.status = "raise" => block' = block
          /\ TargetOf(call') \notin DOMAIN block =>
                 ret'.status = "raise" /\ ret'.exc.exc = "AttributeError"
          /\ TargetOf(call') \in DOMAIN block /\ RawDataOf(call') = Absent =>
                 /\ ret'.status = "raise"
                 /\ ret'.exc.exc = IF NotSubscriptable(call') THEN "TypeError" ELSE "KeyError"
          /\ /\ TargetOf(call') \in DOMAIN block
             /\ RawDataOf(call') # Absent
             /\ isTuple(RawDataOf(call'))
             /\ ~(call'.units = None /\ RawDataOf(call').items[2] = None)
             /\ convert_value(RawDataOf(call').items[1], RawDataOf(call').items[2],
                              call'.units).status = "raise"
             => ret'.status = "raise" /\ ret'.exc.exc = "UnitsError"
          /\ ret'.status \in {"return", "raise"}]_vars

C10_Witness ==
    /\ IsSetParam(call) /\ ret.status = "raise" /\ ret.exc.exc = "UnitsError"
    /\ call.index = "1"
    /\ block[TargetOf(call)] = Num(2000, 1)
    /\ block["kappa"] = Num(MaxVal, 1)

====
